---------------------------- MODULE Spec2Model ----------------------------
(***************************************************************************)
(* Model of bot_blackhouse.py: the QuestaoService (recency cache, resilient*)
(* provider call, response normalisation, batch assembly with local        *)
(* fallback) and the asyncio triggers that share the global service.       *)
(*                                                                         *)
(* Python strings are sequences of characters, so that strip() and int()   *)
(* are computed on the characters.  A character up to U+00FF is the TLA+    *)
(* string that holds it ("\t", "\n", "\f", "\r" for the four with an       *)
(* escape); a character beyond U+00FF, which a TLA+ string cannot hold, is  *)
(* the string of its code point, as in "U+3000" or "U+1D7CE".  JSON values  *)
(* are records [k, v]: k is the JSON type, v the value; a JSON object's v   *)
(* is a record whose DOMAIN is the set of keys present.                    *)
(***************************************************************************)
EXTENDS Integers, Sequences, FiniteSets, TLC

-----------------------------------------------------------------------------
(* Bounds of the exploration.                                              *)

MaxLimite == 2

MaxQtd == 2

MaxChamadas == 2

MaxDia == 9

MaxItens == 2

MaxRespostas == 3

MaxRespostasDireto == 8

-----------------------------------------------------------------------------
(* Strings.                                                                *)

Vazia == <<>>

Penal == <<"P", "e", "n", "a", "l">>

RaciocinioLogico == <<"R", "a", "c", "i", "o", "c", "í", "n", "i", "o", " ", "L", "ó", "g", "i", "c", "o">>

Geral == <<"G", "e", "r", "a", "l">>

Constitucional == <<"C", "o", "n", "s", "t", "i", "t", "u", "c", "i", "o", "n", "a", "l">>

ProcessoPenal == <<"P", "r", "o", "c", "e", "s", "s", "o", " ", "P", "e", "n", "a", "l">>

DireitosHumanos == <<"D", "i", "r", "e", "i", "t", "o", "s", " ", "H", "u", "m", "a", "n", "o", "s">>

NoneStr == <<"N", "o", "n", "e">>

(* str.isspace(): the characters str.strip() removes. *)
Whitespace ==
  { "\t", "\n", "", "\f", "\r", "", "", "", "", " ", "", " ",
    "U+1680", "U+2000", "U+2001", "U+2002", "U+2003", "U+2004", "U+2005",
    "U+2006", "U+2007", "U+2008", "U+2009", "U+200A", "U+2028", "U+2029",
    "U+202F", "U+205F", "U+3000" }

(* The whitespace int() skips around a numeral: the same characters but   *)
(* the four separators U+001C..U+001F.                                    *)
WhitespaceInt == Whitespace \ {"", "", "", ""}

Digitos == <<"0", "1", "2", "3", "4", "5", "6", "7", "8", "9">>

(* The decimal digits of Unicode (category Nd), one row per script, each  *)
(* row in the order 0..9: the characters int() reads as digits.           *)
DigitosUnicode ==
  << <<"0", "1", "2", "3", "4", "5", "6", "7", "8", "9">>,
     <<"U+0660", "U+0661", "U+0662", "U+0663", "U+0664", "U+0665", "U+0666", "U+0667", "U+0668", "U+0669">>,
     <<"U+06F0", "U+06F1", "U+06F2", "U+06F3", "U+06F4", "U+06F5", "U+06F6", "U+06F7", "U+06F8", "U+06F9">>,
     <<"U+07C0", "U+07C1", "U+07C2", "U+07C3", "U+07C4", "U+07C5", "U+07C6", "U+07C7", "U+07C8", "U+07C9">>,
     <<"U+0966", "U+0967", "U+0968", "U+0969", "U+096A", "U+096B", "U+096C", "U+096D", "U+096E", "U+096F">>,
     <<"U+09E6", "U+09E7", "U+09E8", "U+09E9", "U+09EA", "U+09EB", "U+09EC", "U+09ED", "U+09EE", "U+09EF">>,
     <<"U+0A66", "U+0A67", "U+0A68", "U+0A69", "U+0A6A", "U+0A6B", "U+0A6C", "U+0A6D", "U+0A6E", "U+0A6F">>,
     <<"U+0AE6", "U+0AE7", "U+0AE8", "U+0AE9", "U+0AEA", "U+0AEB", "U+0AEC", "U+0AED", "U+0AEE", "U+0AEF">>,
     <<"U+0B66", "U+0B67", "U+0B68", "U+0B69", "U+0B6A", "U+0B6B", "U+0B6C", "U+0B6D", "U+0B6E", "U+0B6F">>,
     <<"U+0BE6", "U+0BE7", "U+0BE8", "U+0BE9", "U+0BEA", "U+0BEB", "U+0BEC", "U+0BED", "U+0BEE", "U+0BEF">>,
     <<"U+0C66", "U+0C67", "U+0C68", "U+0C69", "U+0C6A", "U+0C6B", "U+0C6C", "U+0C6D", "U+0C6E", "U+0C6F">>,
     <<"U+0CE6", "U+0CE7", "U+0CE8", "U+0CE9", "U+0CEA", "U+0CEB", "U+0CEC", "U+0CED", "U+0CEE", "U+0CEF">>,
     <<"U+0D66", "U+0D67", "U+0D68", "U+0D69", "U+0D6A", "U+0D6B", "U+0D6C", "U+0D6D", "U+0D6E", "U+0D6F">>,
     <<"U+0DE6", "U+0DE7", "U+0DE8", "U+0DE9", "U+0DEA", "U+0DEB", "U+0DEC", "U+0DED", "U+0DEE", "U+0DEF">>,
     <<"U+0E50", "U+0E51", "U+0E52", "U+0E53", "U+0E54", "U+0E55", "U+0E56", "U+0E57", "U+0E58", "U+0E59">>,
     <<"U+0ED0", "U+0ED1", "U+0ED2", "U+0ED3", "U+0ED4", "U+0ED5", "U+0ED6", "U+0ED7", "U+0ED8", "U+0ED9">>,
     <<"U+0F20", "U+0F21", "U+0F22", "U+0F23", "U+0F24", "U+0F25", "U+0F26", "U+0F27", "U+0F28", "U+0F29">>,
     <<"U+1040", "U+1041", "U+1042", "U+1043", "U+1044", "U+1045", "U+1046", "U+1047", "U+1048", "U+1049">>,
     <<"U+1090", "U+1091", "U+1092", "U+1093", "U+1094", "U+1095", "U+1096", "U+1097", "U+1098", "U+1099">>,
     <<"U+17E0", "U+17E1", "U+17E2", "U+17E3", "U+17E4", "U+17E5", "U+17E6", "U+17E7", "U+17E8", "U+17E9">>,
     <<"U+1810", "U+1811", "U+1812", "U+1813", "U+1814", "U+1815", "U+1816", "U+1817", "U+1818", "U+1819">>,
     <<"U+1946", "U+1947", "U+1948", "U+1949", "U+194A", "U+194B", "U+194C", "U+194D", "U+194E", "U+194F">>,
     <<"U+19D0", "U+19D1", "U+19D2", "U+19D3", "U+19D4", "U+19D5", "U+19D6", "U+19D7", "U+19D8", "U+19D9">>,
     <<"U+1A80", "U+1A81", "U+1A82", "U+1A83", "U+1A84", "U+1A85", "U+1A86", "U+1A87", "U+1A88", "U+1A89">>,
     <<"U+1A90", "U+1A91", "U+1A92", "U+1A93", "U+1A94", "U+1A95", "U+1A96", "U+1A97", "U+1A98", "U+1A99">>,
     <<"U+1B50", "U+1B51", "U+1B52", "U+1B53", "U+1B54", "U+1B55", "U+1B56", "U+1B57", "U+1B58", "U+1B59">>,
     <<"U+1BB0", "U+1BB1", "U+1BB2", "U+1BB3", "U+1BB4", "U+1BB5", "U+1BB6", "U+1BB7", "U+1BB8", "U+1BB9">>,
     <<"U+1C40", "U+1C41", "U+1C42", "U+1C43", "U+1C44", "U+1C45", "U+1C46", "U+1C47", "U+1C48", "U+1C49">>,
     <<"U+1C50", "U+1C51", "U+1C52", "U+1C53", "U+1C54", "U+1C55", "U+1C56", "U+1C57", "U+1C58", "U+1C59">>,
     <<"U+A620", "U+A621", "U+A622", "U+A623", "U+A624", "U+A625", "U+A626", "U+A627", "U+A628", "U+A629">>,
     <<"U+A8D0", "U+A8D1", "U+A8D2", "U+A8D3", "U+A8D4", "U+A8D5", "U+A8D6", "U+A8D7", "U+A8D8", "U+A8D9">>,
     <<"U+A900", "U+A901", "U+A902", "U+A903", "U+A904", "U+A905", "U+A906", "U+A907", "U+A908", "U+A909">>,
     <<"U+A9D0", "U+A9D1", "U+A9D2", "U+A9D3", "U+A9D4", "U+A9D5", "U+A9D6", "U+A9D7", "U+A9D8", "U+A9D9">>,
     <<"U+A9F0", "U+A9F1", "U+A9F2", "U+A9F3", "U+A9F4", "U+A9F5", "U+A9F6", "U+A9F7", "U+A9F8", "U+A9F9">>,
     <<"U+AA50", "U+AA51", "U+AA52", "U+AA53", "U+AA54", "U+AA55", "U+AA56", "U+AA57", "U+AA58", "U+AA59">>,
     <<"U+ABF0", "U+ABF1", "U+ABF2", "U+ABF3", "U+ABF4", "U+ABF5", "U+ABF6", "U+ABF7", "U+ABF8", "U+ABF9">>,
     <<"U+FF10", "U+FF11", "U+FF12", "U+FF13", "U+FF14", "U+FF15", "U+FF16", "U+FF17", "U+FF18", "U+FF19">>,
     <<"U+104A0", "U+104A1", "U+104A2", "U+104A3", "U+104A4", "U+104A5", "U+104A6", "U+104A7", "U+104A8", "U+104A9">>,
     <<"U+10D30", "U+10D31", "U+10D32", "U+10D33", "U+10D34", "U+10D35", "U+10D36", "U+10D37", "U+10D38", "U+10D39">>,
     <<"U+11066", "U+11067", "U+11068", "U+11069", "U+1106A", "U+1106B", "U+1106C", "U+1106D", "U+1106E", "U+1106F">>,
     <<"U+110F0", "U+110F1", "U+110F2", "U+110F3", "U+110F4", "U+110F5", "U+110F6", "U+110F7", "U+110F8", "U+110F9">>,
     <<"U+11136", "U+11137", "U+11138", "U+11139", "U+1113A", "U+1113B", "U+1113C", "U+1113D", "U+1113E", "U+1113F">>,
     <<"U+111D0", "U+111D1", "U+111D2", "U+111D3", "U+111D4", "U+111D5", "U+111D6", "U+111D7", "U+111D8", "U+111D9">>,
     <<"U+112F0", "U+112F1", "U+112F2", "U+112F3", "U+112F4", "U+112F5", "U+112F6", "U+112F7", "U+112F8", "U+112F9">>,
     <<"U+11450", "U+11451", "U+11452", "U+11453", "U+11454", "U+11455", "U+11456", "U+11457", "U+11458", "U+11459">>,
     <<"U+114D0", "U+114D1", "U+114D2", "U+114D3", "U+114D4", "U+114D5", "U+114D6", "U+114D7", "U+114D8", "U+114D9">>,
     <<"U+11650", "U+11651", "U+11652", "U+11653", "U+11654", "U+11655", "U+11656", "U+11657", "U+11658", "U+11659">>,
     <<"U+116C0", "U+116C1", "U+116C2", "U+116C3", "U+116C4", "U+116C5", "U+116C6", "U+116C7", "U+116C8", "U+116C9">>,
     <<"U+11730", "U+11731", "U+11732", "U+11733", "U+11734", "U+11735", "U+11736", "U+11737", "U+11738", "U+11739">>,
     <<"U+118E0", "U+118E1", "U+118E2", "U+118E3", "U+118E4", "U+118E5", "U+118E6", "U+118E7", "U+118E8", "U+118E9">>,
     <<"U+11950", "U+11951", "U+11952", "U+11953", "U+11954", "U+11955", "U+11956", "U+11957", "U+11958", "U+11959">>,
     <<"U+11C50", "U+11C51", "U+11C52", "U+11C53", "U+11C54", "U+11C55", "U+11C56", "U+11C57", "U+11C58", "U+11C59">>,
     <<"U+11D50", "U+11D51", "U+11D52", "U+11D53", "U+11D54", "U+11D55", "U+11D56", "U+11D57", "U+11D58", "U+11D59">>,
     <<"U+11DA0", "U+11DA1", "U+11DA2", "U+11DA3", "U+11DA4", "U+11DA5", "U+11DA6", "U+11DA7", "U+11DA8", "U+11DA9">>,
     <<"U+16A60", "U+16A61", "U+16A62", "U+16A63", "U+16A64", "U+16A65", "U+16A66", "U+16A67", "U+16A68", "U+16A69">>,
     <<"U+16AC0", "U+16AC1", "U+16AC2", "U+16AC3", "U+16AC4", "U+16AC5", "U+16AC6", "U+16AC7", "U+16AC8", "U+16AC9">>,
     <<"U+16B50", "U+16B51", "U+16B52", "U+16B53", "U+16B54", "U+16B55", "U+16B56", "U+16B57", "U+16B58", "U+16B59">>,
     <<"U+1D7CE", "U+1D7CF", "U+1D7D0", "U+1D7D1", "U+1D7D2", "U+1D7D3", "U+1D7D4", "U+1D7D5", "U+1D7D6", "U+1D7D7">>,
     <<"U+1D7D8", "U+1D7D9", "U+1D7DA", "U+1D7DB", "U+1D7DC", "U+1D7DD", "U+1D7DE", "U+1D7DF", "U+1D7E0", "U+1D7E1">>,
     <<"U+1D7E2", "U+1D7E3", "U+1D7E4", "U+1D7E5", "U+1D7E6", "U+1D7E7", "U+1D7E8", "U+1D7E9", "U+1D7EA", "U+1D7EB">>,
     <<"U+1D7EC", "U+1D7ED", "U+1D7EE", "U+1D7EF", "U+1D7F0", "U+1D7F1", "U+1D7F2", "U+1D7F3", "U+1D7F4", "U+1D7F5">>,
     <<"U+1D7F6", "U+1D7F7", "U+1D7F8", "U+1D7F9", "U+1D7FA", "U+1D7FB", "U+1D7FC", "U+1D7FD", "U+1D7FE", "U+1D7FF">>,
     <<"U+1E140", "U+1E141", "U+1E142", "U+1E143", "U+1E144", "U+1E145", "U+1E146", "U+1E147", "U+1E148", "U+1E149">>,
     <<"U+1E2F0", "U+1E2F1", "U+1E2F2", "U+1E2F3", "U+1E2F4", "U+1E2F5", "U+1E2F6", "U+1E2F7", "U+1E2F8", "U+1E2F9">>,
     <<"U+1E950", "U+1E951", "U+1E952", "U+1E953", "U+1E954", "U+1E955", "U+1E956", "U+1E957", "U+1E958", "U+1E959">>,
     <<"U+1FBF0", "U+1FBF1", "U+1FBF2", "U+1FBF3", "U+1FBF4", "U+1FBF5", "U+1FBF6", "U+1FBF7", "U+1FBF8", "U+1FBF9">> >>

RECURSIVE lstrip(_)
lstrip(s) ==
  IF s # <<>> /\ Head(s) \in Whitespace THEN lstrip(Tail(s)) ELSE s

RECURSIVE rstrip(_)
rstrip(s) ==
  IF s # <<>> /\ s[Len(s)] \in Whitespace
    THEN rstrip(SubSeq(s, 1, Len(s) - 1))
    ELSE s

(* str.strip() *)
strip(s) == rstrip(lstrip(s))

EhDigito(c) ==
  \E r \in 1..Len(DigitosUnicode), i \in 1..10 : DigitosUnicode[r][i] = c

ValorDigito(c) ==
  (CHOOSE i \in 1..10 :
     \E r \in 1..Len(DigitosUnicode) : DigitosUnicode[r][i] = c) - 1

RECURSIVE ValorDecimal(_)
ValorDecimal(s) ==
  IF s = <<>> THEN 0
  ELSE 10 * ValorDecimal(SubSeq(s, 1, Len(s) - 1)) + ValorDigito(s[Len(s)])

RECURSIVE TextoDecimal(_)
TextoDecimal(n) ==
  IF n < 10 THEN <<Digitos[n + 1]>>
  ELSE TextoDecimal(n \div 10) \o <<Digitos[(n % 10) + 1]>>

RECURSIVE Pot10(_)
Pot10(n) == IF n = 0 THEN 1 ELSE 10 * Pot10(n - 1)

Zeros(n) == [i \in 1..n |-> "0"]

-----------------------------------------------------------------------------
(* JSON values as decoded by resp.json().  A float is its shortest decimal *)
(* form, (-1)^neg * m * 10^e with m a natural number (the form repr()      *)
(* prints and the one the value is identified by, for the mantissas an     *)
(* integer of the model can hold); NaN and the infinities, which the       *)
(* decoder accepts, are kinds of their own.                                *)

JNull == [k |-> "null", v |-> 0]

JBool(b) == [k |-> "bool", v |-> b]

JInt(n) == [k |-> "int", v |-> n]

JFloat(neg, m, e) == [k |-> "float", v |-> [neg |-> neg, m |-> m, e |-> e]]

JNaN == [k |-> "nan", v |-> 0]

JInf(neg) == [k |-> "inf", v |-> neg]

JStr(s) == [k |-> "str", v |-> s]

JList(s) == [k |-> "list", v |-> s]

JDict(r) == [k |-> "dict", v |-> r]

DictVazio == [x \in {} |-> JNull]

(* Python truthiness: `not dados`, `x or y`. *)
Truthy(j) ==
  CASE j.k = "null" -> FALSE
    [] j.k = "bool" -> j.v
    [] j.k = "int" -> j.v # 0
    [] j.k = "float" -> j.v.m # 0
    [] j.k = "nan" -> TRUE
    [] j.k = "inf" -> TRUE
    [] j.k = "str" -> j.v # <<>>
    [] j.k = "list" -> j.v # <<>>
    [] j.k = "dict" -> DOMAIN j.v # {}

(* dict.get(key) with the default None. *)
Get(d, key) == IF key \in DOMAIN d.v THEN d.v[key] ELSE JNull

(* A float with the zeros at the end of its mantissa moved to the exponent. *)
RECURSIVE SemZerosFinais(_)
SemZerosFinais(f) ==
  IF f.m = 0 THEN [f EXCEPT !.e = 0]
  ELSE IF f.m % 10 = 0
    THEN SemZerosFinais([f EXCEPT !.m = f.m \div 10, !.e = f.e + 1])
  ELSE f

(* repr() of a float: positional notation when the decimal point falls     *)
(* within -4 < decpt <= 16, else exponent notation with two exponent digits *)
(* at least.                                                               *)
ReprFloat(f) ==
  LET c == SemZerosFinais(f)
      dig == TextoDecimal(c.m)
      n == Len(dig)
      decpt == n + c.e
      x == decpt - 1
      modx == IF x < 0 THEN 0 - x ELSE x
      corpo ==
        IF decpt > 16 \/ decpt < 0 - 3
          THEN <<dig[1]>>
               \o (IF n > 1 THEN <<".">> \o SubSeq(dig, 2, n) ELSE <<>>)
               \o <<"e">>
               \o (IF x < 0 THEN <<"-">> ELSE <<"+">>)
               \o (IF modx < 10 THEN <<"0">> ELSE <<>>)
               \o TextoDecimal(modx)
        ELSE IF decpt <= 0
          THEN <<"0", ".">> \o Zeros(0 - decpt) \o dig
        ELSE IF decpt < n
          THEN SubSeq(dig, 1, decpt) \o <<".">> \o SubSeq(dig, decpt + 1, n)
        ELSE dig \o Zeros(decpt - n) \o <<".", "0">>
  IN  (IF c.neg THEN <<"-">> ELSE <<>>) \o corpo

(* str(x) for the scalars a payload holds in text positions (the text of a  *)
(* list or of an object in such a position is not modelled).               *)
Str(j) ==
  CASE j.k = "str" -> j.v
    [] j.k = "int" -> IF j.v < 0 THEN <<"-">> \o TextoDecimal(0 - j.v)
                                 ELSE TextoDecimal(j.v)
    [] j.k = "null" -> NoneStr
    [] j.k = "bool" -> IF j.v THEN <<"T", "r", "u", "e">>
                              ELSE <<"F", "a", "l", "s", "e">>
    [] j.k = "float" -> ReprFloat(j.v)
    [] j.k = "nan" -> <<"n", "a", "n">>
    [] j.k = "inf" -> IF j.v THEN <<"-", "i", "n", "f">> ELSE <<"i", "n", "f">>

(* int(x) of a string skips the whitespace around the numeral. *)
RECURSIVE SemEspacos(_)
SemEspacos(s) ==
  IF s # <<>> /\ Head(s) \in WhitespaceInt THEN SemEspacos(Tail(s))
  ELSE IF s # <<>> /\ s[Len(s)] \in WhitespaceInt
    THEN SemEspacos(SubSeq(s, 1, Len(s) - 1))
  ELSE s

SemSinal(s) ==
  IF s # <<>> /\ Head(s) \in {"-", "+"} THEN Tail(s) ELSE s

(* The digits of a numeral, its underscores left out. *)
SoDigitos(d) == SelectSeq(d, EhDigito)

(* A numeral of int(): digits, with single underscores between digits, and *)
(* no more digits than CPython converts (4300, int_max_str_digits).        *)
NumeralOk(d) ==
  /\ d # <<>>
  /\ \A i \in 1..Len(d) :
       \/ EhDigito(d[i])
       \/ /\ d[i] = "_"
          /\ 1 < i /\ i < Len(d)
          /\ EhDigito(d[i - 1]) /\ EhDigito(d[i + 1])
  /\ Len(SoDigitos(d)) <= 4300

(* int(x) succeeds: a bool, an int, a finite float, or a string that is an  *)
(* optionally signed numeral once the whitespace around it is skipped;      *)
(* None, NaN, the infinities, lists and objects raise.                     *)
ParaIntOk(j) ==
  CASE j.k = "int" -> TRUE
    [] j.k = "bool" -> TRUE
    [] j.k = "float" -> TRUE
    [] j.k = "str" -> NumeralOk(SemSinal(SemEspacos(j.v)))
    [] OTHER -> FALSE

(* int() of a float truncates towards zero.  A mantissa the model can hold *)
(* has at most ten digits, so from ten decimal places on nothing is left.  *)
Truncar(f) ==
  LET abs == IF f.e >= 0 THEN f.m * Pot10(f.e)
             ELSE IF 0 - f.e >= 10 THEN 0
             ELSE f.m \div Pot10(0 - f.e)
  IN  IF f.neg THEN 0 - abs ELSE abs

ParaInt(j) ==
  CASE j.k = "int" -> j.v
    [] j.k = "bool" -> IF j.v THEN 1 ELSE 0
    [] j.k = "float" -> Truncar(j.v)
    [] j.k = "str" ->
         LET t == SemEspacos(j.v)
             abs == ValorDecimal(SoDigitos(SemSinal(t)))
         IN  IF Head(t) = "-" THEN 0 - abs ELSE abs

-----------------------------------------------------------------------------
(* Questao and the fallback bank.                                          *)

Questao(pergunta, opcoes, correta, comentario, topico) ==
  [pergunta |-> pergunta, opcoes |-> opcoes, correta |-> correta,
   comentario |-> comentario, topico |-> topico]

(* Questao.chave: the fingerprint used to detect repetition. *)
chave(q) == <<strip(q.pergunta), q.correta>>

Chaves(s) == {chave(s[i]) : i \in 1..Len(s)}

FALLBACK_QUESTOES ==
  << [pergunta |-> <<"F", "a", "l", "l", "b", "a", "c", "k", ":", " ", "Q", "u", "a", "l", " ", "a", " ", "c", "a", "p", "i", "t", "a", "l", " ", "d", "o", " ", "B", "r", "a", "s", "i", "l", "?">>,
      opcoes |-> << <<"R", "i", "o", " ", "d", "e", " ", "J", "a", "n", "e", "i", "r", "o">>,
                    <<"B", "r", "a", "s", "í", "l", "i", "a">>,
                    <<"S", "ã", "o", " ", "P", "a", "u", "l", "o">>,
                    <<"B", "e", "l", "o", " ", "H", "o", "r", "i", "z", "o", "n", "t", "e">> >>,
      correta |-> 1,
      comentario |-> <<"B", "r", "a", "s", "í", "l", "i", "a", " ", "é", " ", "a", " ", "c", "a", "p", "i", "t", "a", "l", " ", "f", "e", "d", "e", "r", "a", "l", " ", "d", "e", "s", "d", "e", " ", "1", "9", "6", "0", ".">>,
      topico |-> Geral],
     [pergunta |-> <<"F", "a", "l", "l", "b", "a", "c", "k", ":", " ", "2", " ", "+", " ", "2", " ", "é", " ", "i", "g", "u", "a", "l", " ", "a", "?">>,
      opcoes |-> << <<"1">>, <<"2">>, <<"3">>, <<"4">> >>,
      correta |-> 3,
      comentario |-> <<"O", "p", "e", "r", "a", "ç", "ã", "o", " ", "b", "á", "s", "i", "c", "a", " ", "d", "e", " ", "a", "d", "i", "ç", "ã", "o", ".">>,
      topico |-> RaciocinioLogico] >>

-----------------------------------------------------------------------------
(* Python list slices, as CPython clamps them.                             *)

Max2(a, b) == IF a > b THEN a ELSE b

Min2(a, b) == IF a < b THEN a ELSE b

(* s[inicio:] *)
SliceFrom(s, inicio) ==
  LET i == IF inicio < 0 THEN Max2(Len(s) + inicio, 0) ELSE Min2(inicio, Len(s))
  IN  SubSeq(s, i + 1, Len(s))

(* s[:fim] *)
SliceTo(s, fim) ==
  LET j == IF fim < 0 THEN Max2(Len(s) + fim, 0) ELSE Min2(fim, Len(s))
  IN  SubSeq(s, 1, j)

-----------------------------------------------------------------------------
(* QuestaoService._registrar_no_historico, on the pair (list, set).        *)

(* Mutation: the newest entries are cut instead of the oldest. *)
registrar_corta_novos(h, hs, limite, q) ==
  IF chave(q) \in hs THEN [historico |-> h, historico_set |-> hs]
  ELSE
    LET h1 == Append(h, q)
    IN  [historico |-> SliceTo(h1, limite),
         historico_set |-> Chaves(SliceTo(h1, limite))]

registrar_no_historico(h, hs, limite, q) ==
  IF chave(q) \in hs THEN [historico |-> h, historico_set |-> hs]
  ELSE
    LET h1 == Append(h, q)
        hs1 == hs \cup {chave(q)}
    IN  IF Len(h1) > limite
          THEN LET antigos == SliceTo(h1, Len(h1) - limite)
               IN  [historico |-> SliceFrom(h1, 0 - limite),
                    historico_set |-> hs1 \ Chaves(antigos)]
          ELSE [historico |-> h1, historico_set |-> hs1]

(* Mutation: the history is never consulted. *)
ja_foi_enviada_nunca(hs, q) == FALSE

(* QuestaoService._ja_foi_enviada_recentemente *)
ja_foi_enviada_recentemente(hs, q) == chave(q) \in hs

-----------------------------------------------------------------------------
(* QuestaoService._normalizar_resposta                                     *)

ChavesObrigatorias == {"pergunta", "opcoes", "correta"}

(* The list of raw items the payload shape resolves to. *)
ItensBrutos(dados) ==
  IF dados.k = "dict"
    THEN IF ChavesObrigatorias \subseteq DOMAIN dados.v THEN <<dados>>
         ELSE IF "result" \in DOMAIN dados.v /\ dados.v["result"].k = "list"
           THEN dados.v["result"].v
         ELSE IF "questoes" \in DOMAIN dados.v /\ dados.v["questoes"].k = "list"
           THEN dados.v["questoes"].v
         ELSE <<>>
  ELSE IF dados.k = "list" THEN dados.v
  ELSE <<>>

ItemValido(q) ==
  /\ q.k = "dict"
  /\ ChavesObrigatorias \subseteq DOMAIN q.v
  /\ q.v["opcoes"].k = "list"
  /\ Len(q.v["opcoes"].v) >= 2
  /\ ParaIntOk(q.v["correta"])

ConverterItem(q, topico_padrao) ==
  LET opcoes == q.v["opcoes"].v
      com == Get(q, "comentario")
      top == Get(q, "topico")
  IN  Questao(Str(Get(q, "pergunta")),
              [i \in 1..Len(opcoes) |-> Str(opcoes[i])],
              ParaInt(q.v["correta"]),
              IF Truthy(com) THEN Str(com) ELSE Vazia,
              IF Truthy(top) THEN Str(top)
              ELSE IF topico_padrao # Vazia THEN topico_padrao
              ELSE Geral)

RECURSIVE ConverterItens(_, _)
ConverterItens(itens, topico_padrao) ==
  IF itens = <<>> THEN <<>>
  ELSE LET resto == ConverterItens(Tail(itens), topico_padrao)
       IN  IF ItemValido(Head(itens))
             THEN <<ConverterItem(Head(itens), topico_padrao)>> \o resto
             ELSE resto

normalizar_resposta(dados, topico_padrao) ==
  ConverterItens(ItensBrutos(dados), topico_padrao)

-----------------------------------------------------------------------------
(* The provider's behaviours: the payloads one successful GET may decode to.*)

OpXY == JList(<<JStr(<<"x">>), JStr(<<"y">>)>>)

ItemA ==
  JDict([pergunta |-> JStr(<<"A">>), opcoes |-> OpXY, correta |-> JInt(0),
         topico |-> JStr(Penal)])

(* Same fingerprint as ItemA: a trailing no-break space (U+00A0) and an    *)
(* ideographic space, the index sent as text after a form feed.            *)
ItemA2 ==
  JDict([pergunta |-> JStr(<<"A", " ", "U+3000">>), opcoes |-> OpXY,
         correta |-> JStr(<<"\f", "0">>), comentario |-> JStr(<<"c">>),
         topico |-> JStr(Penal)])

ItemB ==
  JDict([pergunta |-> JStr(<<"B">>), opcoes |-> OpXY, correta |-> JInt(1),
         topico |-> JStr(Geral)])

ItemC ==
  JDict([pergunta |-> JStr(<<"C">>), opcoes |-> OpXY, correta |-> JInt(1)])

(* Malformed: a single option. *)
ItemRuim ==
  JDict([pergunta |-> JStr(<<"D">>), opcoes |-> JList(<<JStr(<<"x">>)>>),
         correta |-> JInt(0)])

Payloads ==
  << ItemA,
     JDict([questoes |-> JList(<<ItemA2, ItemB>>)]),
     JDict([result |-> JList(<<ItemC, ItemRuim>>)]),
     JList(<<ItemRuim>>),
     JList(<<>>) >>

Falha == [k |-> "falha", v |-> 0]

-----------------------------------------------------------------------------
(* Configuration and callers.                                              *)

QUESTIONS_API_URL == <<"h", "t", "t", "p", "s", ":", "/", "/", "b", "l", "a", "c", "k", "h", "o", "u", "s", "e", "-", "a", "p", "i", "-", "p", "r", "o", "d", "u", "c", "t", "i", "o", "n", ".", "u", "p", ".", "r", "a", "i", "l", "w", "a", "y", ".", "a", "p", "p", "/", "q", "u", "e", "s", "t", "o", "e", "s">>

(* max_retries of the global questao_service (the default of __init__) *)
MAX_RETRIES == 3

(* backoff_base = 0.7 s, in tenths of a second *)
backoff_base == 7

RECURSIVE Pot2(_)
Pot2(n) == IF n = 0 THEN 1 ELSE 2 * Pot2(n - 1)

(* Mutation: the exponent is off by one. *)
espera_dobrada(tentativa) == backoff_base * Pot2(tentativa)

(* espera = backoff_base * (2 ** (tentativa - 1)) *)
espera(tentativa) == backoff_base * Pot2(tentativa - 1)

(* The tasks of the event loop: the callback of an inline button, a daily  *)
(* job, and a direct caller of the public buscar_lote.                     *)
Tarefas == {"manual", "automatico", "direto"}

(* The topics of the inline buttons. *)
TOPICOS_LISTA ==
  {Penal, Constitucional, RaciocinioLogico, ProcessoPenal, DireitosHumanos}

(* The topic the inline buttons are explored with: one that the fallback   *)
(* bank lacks (the daily slots bring one that it has).                     *)
TopicosExplorados == {Penal}

(* acao of the inline buttons' callback data. *)
TEMA == <<"T", "E", "M", "A">>

(* callback_data of the button of a topic: f"TEMA|{topico}" *)
DadoDoBotao(top) == TEMA \o <<"|">> \o top

(* The callback data cb_router is explored with: that button, a value that  *)
(* is no button, data with no "|", and an action that is not "TEMA".        *)
DadosCallback ==
  {DadoDoBotao(top) : top \in TopicosExplorados \cup {Geral}}
    \cup {TEMA, <<"X", "|">> \o Penal}

(* topico of a direct call: None (or the empty string). *)
TopicosDiretos == {Vazia}

Nenhuma == "nenhuma"

(* The daily slots: the hour and the topic of each. *)
HORARIOS_AUTOMATICOS ==
  << [hora |-> 8, topico |-> Penal],
     [hora |-> 13, topico |-> Constitucional],
     [hora |-> 19, topico |-> RaciocinioLogico] >>

(* The days of the month on which a daily job may fire. *)
DiasDoMes == 1..MaxDia

-----------------------------------------------------------------------------
(* State.                                                                  *)

VARIABLES
  api_url,            \* QuestaoService.api_url
  max_retries,        \* QuestaoService.max_retries
  historico_limite,   \* QuestaoService._historico_limite
  historico,          \* QuestaoService._historico
  historico_set,      \* QuestaoService._historico_set
  pc,                 \* position of each task
  running,            \* the task executing on the event-loop thread, or Nenhuma
  n_chamadas,         \* buscar_lote calls started so far
  n_respostas,        \* requests.get calls that returned a response so far
  qtd, topico, evitar_repetidas,        \* arguments of the running buscar_lote
  lote, vistos_local, tentativas,       \* its locals
  dados, questoes_api,
  tentativa,          \* loop variable of _chamar_api_bruto
  pedidos,            \* outcomes of the requests.get calls of the current _chamar_api_bruto
  sleeps,             \* time_mod.sleep durations of the current _chamar_api_bruto
  base, q_raw,        \* locals of _buscar_lote_fallback
  fonte,              \* which return statement produced the batch
  cb_topico,          \* cb_router, while query.answer is awaited: the topic it will send
  questoes,           \* per task: the batch buscar_lote returned
  enviadas,           \* per task: send_poll calls of the current batch that ended
  erros,              \* per task: those of them that raised (logged by logger.error)
  nr_itens,           \* the raw items of a payload given to _normalizar_resposta
  nr_topico,          \* its argument topico_padrao
  nr_saida            \* its result, per shape of the payload it was applied to

config == <<api_url, max_retries, historico_limite>>

cache == <<historico, historico_set>>

locais == <<qtd, topico, evitar_repetidas, lote, vistos_local, tentativas,
            dados, questoes_api, tentativa, pedidos, sleeps, base, q_raw, fonte>>

puro == <<nr_itens, nr_topico, nr_saida>>

vars == <<config, puro, cb_topico, cache, pc, running, n_chamadas, n_respostas, locais,
          questoes, enviadas, erros>>

SemQRaw == [pergunta |-> Vazia]

(* No stand-alone call of _normalizar_resposta is under way. *)
SemNormalizacao ==
  /\ nr_itens = <<>>
  /\ nr_topico = Vazia
  /\ nr_saida = <<>>

(* QuestaoService.__init__ and the idle event loop. *)
InitServico ==
  /\ api_url \in {Vazia, QUESTIONS_API_URL}
  /\ max_retries = MAX_RETRIES
  /\ historico_limite \in 0..MaxLimite
  /\ historico = <<>>
  /\ historico_set = {}
  /\ pc = [t \in Tarefas |-> "idle"]
  /\ running = Nenhuma
  /\ n_chamadas = 0
  /\ n_respostas = 0
  /\ qtd = 0 /\ topico = Vazia /\ evitar_repetidas = TRUE
  /\ lote = <<>> /\ vistos_local = {} /\ tentativas = 0
  /\ dados = JNull /\ questoes_api = <<>>
  /\ tentativa = 0 /\ pedidos = <<>> /\ sleeps = <<>>
  /\ base = <<>> /\ q_raw = SemQRaw
  /\ fonte = Nenhuma
  /\ cb_topico = Vazia
  /\ questoes = [t \in Tarefas |-> <<>>]
  /\ enviadas = [t \in Tarefas |-> 0]
  /\ erros = [t \in Tarefas |-> 0]

Init == SemNormalizacao /\ InitServico

LocaisIniciais ==
  /\ qtd' = 0 /\ topico' = Vazia /\ evitar_repetidas' = TRUE
  /\ lote' = <<>> /\ vistos_local' = {} /\ tentativas' = 0
  /\ dados' = JNull /\ questoes_api' = <<>>
  /\ tentativa' = 0 /\ pedidos' = <<>> /\ sleeps' = <<>>
  /\ base' = <<>> /\ q_raw' = SemQRaw
  /\ fonte' = Nenhuma

-----------------------------------------------------------------------------
(* A cb_router that waits for its query.answer counts, for the other        *)
(* tasks, in the bound on the buscar_lote calls of a run.                   *)
Pendentes(t) == IF t # "manual" /\ pc["manual"] = "answer" THEN 1 ELSE 0

-----------------------------------------------------------------------------
(* buscar_lote: entry.  The call runs on the event-loop thread with no     *)
(* await inside it, so it starts only when the thread is free and keeps it  *)
(* until the caller reaches an await.                                      *)

buscar_lote(t, n, top, ev) ==
  /\ pc[t] \in {"idle", "answer"}
  /\ running = Nenhuma
  /\ n_chamadas + Pendentes(t) < MaxChamadas
  /\ running' = t
  /\ n_chamadas' = n_chamadas + 1
  /\ qtd' = n /\ topico' = top /\ evitar_repetidas' = ev
  /\ lote' = <<>> /\ vistos_local' = {} /\ tentativas' = 0
  /\ questoes' = [questoes EXCEPT ![t] = <<>>]
  /\ pc' = [pc EXCEPT ![t] = IF n <= 0 THEN "retornou" ELSE "while"]
  /\ UNCHANGED <<config, puro, cache, n_respostas, dados, questoes_api, tentativa,
                 pedidos, sleeps, base, q_raw, fonte, enviadas, erros>>

(* qtd of enviar_lote_para_canal when the caller passes none, as cb_router  *)
(* and job_enviar_lote do.                                                 *)
QTD_PADRAO == 10

(* enviar_lote_para_canal(context, topico, origem, qtd), run by task t: up   *)
(* to the call of buscar_lote(qtd=qtd, topico=topico).                      *)
enviar_lote_para_canal(t, top, n) ==
  /\ t \in {"manual", "automatico"}
  /\ buscar_lote(t, n, top, TRUE)

(* enviar_lote_para_canal called with qtd=0 by an idle task. *)
EnvioSemQuantidade(t, top) ==
  /\ pc[t] = "idle"
  /\ enviar_lote_para_canal(t, top, 0)
  /\ UNCHANGED cb_topico

(* query.data.split("|", 1): the parts before and after the first "|", or   *)
(* the whole string as the only part when it has none.                     *)
split(s) ==
  LET barras == {i \in 1..Len(s) : s[i] = "|"}
  IN  IF barras = {}
        THEN <<s>>
        ELSE LET i == CHOOSE k \in barras : \A m \in barras : k <= m
             IN  <<SubSeq(s, 1, i - 1), SubSeq(s, i + 1, Len(s))>>

(* The topic cb_router sends for the callback data, or the empty string     *)
(* when it only answers the query: the data does not unpack into acao and   *)
(* valor ("Formato de ação inválido."), acao is not "TEMA" ("Ação           *)
(* desconhecida."), or valor is no topic of TOPICOS_LISTA ("Matéria         *)
(* inválida.").                                                            *)
TopicoDoCallback(data) ==
  LET partes == split(data)
  IN  IF Len(partes) # 2 THEN Vazia
      ELSE IF partes[1] # TEMA THEN Vazia
      ELSE IF partes[2] \notin TOPICOS_LISTA THEN Vazia
      ELSE partes[2]

(* cb_router after its query.answer completed: for a topic of the list,     *)
(* enviar_lote_para_canal with the default qtd; otherwise it returns.       *)
AposAnswer(top) ==
  /\ cb_topico' = Vazia
  /\ IF top = Vazia
       THEN /\ pc' = [pc EXCEPT !["manual"] = "idle"]
            /\ UNCHANGED <<config, puro, cache, running, n_chamadas, n_respostas, locais,
                           questoes, enviadas, erros>>
       ELSE enviar_lote_para_canal("manual", top, QTD_PADRAO)

(* cb_router, from its start to the first point where it gives up the       *)
(* event loop.  Each branch awaits query.answer: the call suspends (other   *)
(* tasks run before the handler goes on), raises before it suspends (the    *)
(* exception leaves the handler, no try encloses these awaits), or          *)
(* completes without suspending, and then the handler goes on at once.      *)
cb_router(data) ==
  /\ pc["manual"] = "idle"
  /\ running = Nenhuma
  /\ LET top == TopicoDoCallback(data)
     IN  \/ /\ n_chamadas < MaxChamadas
            /\ pc' = [pc EXCEPT !["manual"] = "answer"]
            /\ cb_topico' = top
            /\ UNCHANGED <<config, puro, cache, running, n_chamadas, n_respostas, locais,
                           questoes, enviadas, erros>>
         \/ /\ pc' = [pc EXCEPT !["manual"] = "excecao"]
            /\ UNCHANGED <<config, puro, cb_topico, cache, running, n_chamadas, n_respostas,
                           locais, questoes, enviadas, erros>>
         \/ AposAnswer(top)

(* The awaited query.answer completed: cb_router goes on. *)
QueryAnswerConcluido ==
  /\ pc["manual"] = "answer"
  /\ running = Nenhuma
  /\ AposAnswer(cb_topico)

(* The awaited query.answer raised: the exception leaves cb_router, which   *)
(* sends nothing.                                                          *)
QueryAnswerFalhou ==
  /\ pc["manual"] = "answer"
  /\ running = Nenhuma
  /\ pc' = [pc EXCEPT !["manual"] = "excecao"]
  /\ cb_topico' = Vazia
  /\ UNCHANGED <<config, puro, cache, running, n_chamadas, n_respostas, locais, questoes,
                 enviadas, erros>>

(* job_enviar_lote, fired by the job queue for slot s on day-of-month dia:  *)
(* the topic is the one configurar_jobs stored in the job's data (or        *)
(* "Geral"), whatever the day; qtd is the default.                         *)
job_enviar_lote(s, dia) ==
  /\ s \in 1..Len(HORARIOS_AUTOMATICOS)
  /\ dia \in DiasDoMes
  /\ pc["automatico"] = "idle"
  /\ LET data == [topico |-> HORARIOS_AUTOMATICOS[s].topico]
         top == IF data.topico # Vazia THEN data.topico ELSE Geral
     IN  enviar_lote_para_canal("automatico", top, QTD_PADRAO)
  /\ UNCHANGED cb_topico

(* A direct call of the public method. *)
ChamadaDireta(t) ==
  /\ t = "direto"
  /\ pc[t] = "idle"
  /\ \E n \in 0..MaxQtd, top \in TopicosDiretos, ev \in BOOLEAN :
        buscar_lote(t, n, top, ev)
  /\ UNCHANGED cb_topico

(* params of the provider call: {"qtd": 1}, plus the topic when one is set. *)
params ==
  IF topico # Vazia THEN [qtd |-> 1, topico |-> topico] ELSE [qtd |-> 1]

(* One test of the while condition of buscar_lote: when `continua` holds the *)
(* iteration starts and _chamar_api_bruto is entered, which returns None at *)
(* once when `sem_chamada` holds; otherwise the loop is left.               *)
Iteracao(t, continua, sem_chamada) ==
  /\ pc[t] = "while"
  /\ IF continua
       THEN /\ tentativas' = tentativas + 1
            /\ pedidos' = <<>>
            /\ sleeps' = <<>>
            /\ IF sem_chamada
                 THEN /\ dados' = JNull
                      /\ tentativa' = 0
                      /\ pc' = [pc EXCEPT ![t] = "api_ret"]
                 ELSE /\ dados' = dados
                      /\ tentativa' = 1
                      /\ pc' = [pc EXCEPT ![t] = "tentar"]
       ELSE /\ pc' = [pc EXCEPT ![t] = "fim_while"]
            /\ tentativas' = 0
            /\ UNCHANGED <<pedidos, sleeps, dados, tentativa>>
  /\ UNCHANGED <<config, puro, cb_topico, cache, running, n_chamadas, n_respostas, qtd, topico, evitar_repetidas,
                 lote, vistos_local, questoes_api, base, q_raw, fonte,
                 questoes, enviadas, erros>>

(* Mutation: the loop condition forgets tentativas < tentativas_max. *)
While_SemOrcamento(t) ==
  Iteracao(t, Len(lote) < qtd, api_url = Vazia \/ max_retries < 1)

(* Mutation: _chamar_api_bruto does not test api_url. *)
While_SemTesteUrl(t) ==
  Iteracao(t, Len(lote) < qtd /\ tentativas < qtd * 4, max_retries < 1)

(* while len(lote) < qtd and tentativas < tentativas_max: ... and the entry *)
(* of _chamar_api_bruto (`if not self.api_url: return None`).               *)
While(t) ==
  Iteracao(t, Len(lote) < qtd /\ tentativas < qtd * 4,
           api_url = Vazia \/ max_retries < 1)

(* One requests.get attempt that succeeds and decodes to payload r. *)
TentarOk(t, r) ==
  /\ pc[t] = "tentar"
  /\ n_respostas' = n_respostas + 1
  /\ pedidos' = Append(pedidos, r)
  /\ dados' = r
  /\ pc' = [pc EXCEPT ![t] = "api_ret"]
  /\ UNCHANGED <<config, puro, cb_topico, cache, running, n_chamadas, qtd, topico,
                 evitar_repetidas, lote, vistos_local, tentativas, questoes_api,
                 tentativa, sleeps, base, q_raw, fonte, questoes, enviadas, erros>>

(* Mutation: the exception of a failed attempt is not caught and leaves    *)
(* buscar_lote and its caller.                                             *)
TentarFalha_Levanta(t) ==
  /\ pc[t] = "tentar"
  /\ pc' = [pc EXCEPT ![t] = "excecao"]
  /\ running' = Nenhuma
  /\ questoes' = [questoes EXCEPT ![t] = <<>>]
  /\ LocaisIniciais
  /\ UNCHANGED <<config, puro, cb_topico, cache, n_chamadas, n_respostas, enviadas, erros>>

(* One attempt that raises: back off, or give up after the last one. *)
TentarFalha(t) ==
  /\ pc[t] = "tentar"
  /\ pedidos' = Append(pedidos, Falha)
  /\ IF tentativa < max_retries
       THEN /\ sleeps' = Append(sleeps, espera(tentativa))
            /\ dados' = dados
            /\ pc' = [pc EXCEPT ![t] = "dormir"]
       ELSE /\ sleeps' = sleeps
            /\ dados' = JNull
            /\ pc' = [pc EXCEPT ![t] = "api_ret"]
  /\ UNCHANGED <<config, puro, cb_topico, cache, running, n_chamadas, n_respostas, qtd, topico, evitar_repetidas,
                 lote, vistos_local, tentativas, questoes_api, tentativa,
                 base, q_raw, fonte, questoes, enviadas, erros>>

(* time_mod.sleep returns; the for loop takes the next tentativa. *)
Acordar(t) ==
  /\ pc[t] = "dormir"
  /\ tentativa' = tentativa + 1
  /\ pc' = [pc EXCEPT ![t] = "tentar"]
  /\ UNCHANGED <<config, puro, cb_topico, cache, running, n_chamadas, n_respostas, qtd, topico, evitar_repetidas,
                 lote, vistos_local, tentativas, dados, questoes_api, pedidos, sleeps,
                 base, q_raw, fonte, questoes, enviadas, erros>>

(* Back in buscar_lote: `if not dados: break`, else normalise.  Locals that *)
(* are not read again before they are overwritten (dados, the loop variable *)
(* of the finished _chamar_api_bruto, tentativas once the loop is left) are *)
(* cleared as soon as they are dead.                                       *)
ApiRet(t) ==
  /\ pc[t] = "api_ret"
  /\ IF ~Truthy(dados)
       THEN /\ questoes_api' = <<>>
            /\ tentativas' = 0
            /\ pc' = [pc EXCEPT ![t] = "fim_while"]
       ELSE /\ questoes_api' = normalizar_resposta(dados, topico)
            /\ tentativas' = tentativas
            /\ pc' = [pc EXCEPT ![t] =
                        IF questoes_api' = <<>> THEN "while" ELSE "for"]
  /\ dados' = JNull
  /\ tentativa' = 0
  /\ pedidos' = <<>>
  /\ sleeps' = <<>>
  /\ UNCHANGED <<config, puro, cb_topico, cache, running, n_chamadas, n_respostas, qtd, topico, evitar_repetidas,
                 lote, vistos_local, base, q_raw, fonte, questoes, enviadas, erros>>

(* Mutation: the seen-set of the batch is not consulted. *)
Pula_SemVistos(q) ==
  evitar_repetidas /\ ja_foi_enviada_recentemente(historico_set, q)

(* The two `continue` tests of the for loop: seen in this batch, or sent   *)
(* recently when evitar_repetidas is set.                                  *)
Pula(q) ==
  \/ chave(q) \in vistos_local
  \/ evitar_repetidas /\ ja_foi_enviada_recentemente(historico_set, q)

(* One iteration of `for q in questoes_api`. *)
For(t) ==
  /\ pc[t] = "for"
  /\ LET q == Head(questoes_api)
         pula == Pula(q)
         reg == registrar_no_historico(historico, historico_set, historico_limite, q)
     IN  /\ IF pula
              THEN UNCHANGED <<vistos_local, lote, cache>>
              ELSE /\ vistos_local' = vistos_local \cup {chave(q)}
                   /\ lote' = Append(lote, q)
                   /\ historico' = reg.historico
                   /\ historico_set' = reg.historico_set
         /\ IF Len(lote') >= qtd \/ Tail(questoes_api) = <<>>
              THEN /\ questoes_api' = <<>>
                   /\ pc' = [pc EXCEPT ![t] = "while"]
              ELSE /\ questoes_api' = Tail(questoes_api)
                   /\ pc' = pc
  /\ UNCHANGED <<config, puro, cb_topico, running, n_chamadas, n_respostas, qtd, topico, evitar_repetidas,
                 tentativas, dados, tentativa, pedidos, sleeps,
                 base, q_raw, fonte, questoes, enviadas, erros>>

(* random.shuffle(lote): any order of the same questions. *)
Permutacoes(s) ==
  { [i \in 1..Len(s) |-> s[p[i]]] :
      p \in { f \in [1..Len(s) -> 1..Len(s)] :
                \A i, j \in 1..Len(s) : f[i] = f[j] => i = j } }

(* [q for q in base if q.get("topico") == topico] *)
RECURSIVE Filtrar(_, _)
Filtrar(s, top) ==
  IF s = <<>> THEN <<>>
  ELSE IF Head(s).topico = top THEN <<Head(s)>> \o Filtrar(Tail(s), top)
  ELSE Filtrar(Tail(s), top)

(* The bank _buscar_lote_fallback samples from. *)
BaseFallback(top) ==
  IF top # Vazia /\ Filtrar(FALLBACK_QUESTOES, top) # <<>>
    THEN Filtrar(FALLBACK_QUESTOES, top)
    ELSE FALLBACK_QUESTOES

(* The Questao built from a bank entry. *)
QuestaoDoBanco(r) ==
  Questao(r.pergunta, r.opcoes, r.correta, r.comentario, r.topico)

(* After the while loop: shuffle and return, or enter the fallback. *)
FimWhileRetorna(t) ==
  /\ pc[t] = "fim_while"
  /\ lote # <<>>
  /\ \E s \in Permutacoes(lote) :
       questoes' = [questoes EXCEPT ![t] = SliceTo(s, qtd)]
  /\ fonte' = "api"
  /\ lote' = <<>>
  /\ vistos_local' = {}
  /\ pc' = [pc EXCEPT ![t] = "retornou"]
  /\ UNCHANGED <<config, puro, cb_topico, cache, running, n_chamadas, n_respostas, qtd, topico, evitar_repetidas,
                 tentativas, dados, questoes_api, tentativa,
                 pedidos, sleeps, base, q_raw, enviadas, erros>>

(* Mutation: a short provider batch is topped up from the bank. *)
FimWhileFallback_Completa(t) ==
  /\ pc[t] = "fim_while"
  /\ Len(lote) < qtd
  /\ base' = BaseFallback(topico)
  /\ pc' = [pc EXCEPT ![t] = "fallback"]
  /\ UNCHANGED <<config, puro, cb_topico, cache, running, n_chamadas, n_respostas, qtd, topico,
                 evitar_repetidas, lote, vistos_local, tentativas, dados,
                 questoes_api, tentativa, pedidos, sleeps, q_raw, fonte,
                 questoes, enviadas, erros>>

FimWhileFallback(t) ==
  /\ pc[t] = "fim_while"
  /\ lote = <<>>
  /\ base' = BaseFallback(topico)
  /\ vistos_local' = {}
  /\ pc' = [pc EXCEPT ![t] = "fallback"]
  /\ UNCHANGED <<config, puro, cb_topico, cache, running, n_chamadas, n_respostas, qtd, topico, evitar_repetidas,
                 lote, tentativas, dados, questoes_api, tentativa,
                 pedidos, sleeps, q_raw, fonte, questoes, enviadas, erros>>

(* while len(lote) < qtd and base: q_raw = random.choice(base) *)
Amostrar(t, i) ==
  /\ pc[t] = "fallback"
  /\ Len(lote) < qtd
  /\ i \in 1..Len(base)
  /\ q_raw' = base[i]
  /\ pc' = [pc EXCEPT ![t] = "fallback_q"]
  /\ UNCHANGED <<config, puro, cb_topico, cache, running, n_chamadas, n_respostas, qtd, topico, evitar_repetidas,
                 lote, vistos_local, tentativas, dados, questoes_api, tentativa,
                 pedidos, sleeps, base, fonte, questoes, enviadas, erros>>

(* The rest of the iteration: skip a fingerprint seen in this batch, else   *)
(* take and register the question.                                         *)
FallbackQ(t) ==
  /\ pc[t] = "fallback_q"
  /\ LET q == QuestaoDoBanco(q_raw)
         reg == registrar_no_historico(historico, historico_set, historico_limite, q)
     IN  IF chave(q) \in vistos_local
           THEN UNCHANGED <<vistos_local, lote, cache>>
           ELSE /\ vistos_local' = vistos_local \cup {chave(q)}
                /\ lote' = Append(lote, q)
                /\ historico' = reg.historico
                /\ historico_set' = reg.historico_set
  /\ q_raw' = SemQRaw
  /\ pc' = [pc EXCEPT ![t] = "fallback"]
  /\ UNCHANGED <<config, puro, cb_topico, running, n_chamadas, n_respostas, qtd, topico, evitar_repetidas,
                 tentativas, dados, questoes_api, tentativa,
                 pedidos, sleeps, base, fonte, questoes, enviadas, erros>>

(* The fallback loop ends: return lote. *)
FallbackRetorna(t) ==
  /\ pc[t] = "fallback"
  /\ ~(Len(lote) < qtd /\ base # <<>>)
  /\ questoes' = [questoes EXCEPT ![t] = lote]
  /\ fonte' = "fallback"
  /\ lote' = <<>>
  /\ vistos_local' = {}
  /\ base' = <<>>
  /\ pc' = [pc EXCEPT ![t] = "retornou"]
  /\ UNCHANGED <<config, puro, cb_topico, cache, running, n_chamadas, n_respostas, qtd, topico, evitar_repetidas,
                 tentativas, dados, questoes_api, tentativa,
                 pedidos, sleeps, q_raw, enviadas, erros>>

-----------------------------------------------------------------------------
(* After buscar_lote returned.                                             *)

(* The direct caller has its list. *)
ConcluirDireta(t) ==
  /\ t = "direto"
  /\ pc[t] = "retornou"
  /\ pc' = [pc EXCEPT ![t] = "idle"]
  /\ running' = Nenhuma
  /\ questoes' = [questoes EXCEPT ![t] = <<>>]
  /\ LocaisIniciais
  /\ UNCHANGED <<config, puro, cb_topico, cache, n_chamadas, n_respostas, enviadas, erros>>

(* enviar_lote_para_canal reaches its first await: send_message when the   *)
(* batch is empty, else the first send_poll.  The event loop is released.  *)
PrimeiroAwait(t) ==
  /\ t # "direto"
  /\ pc[t] = "retornou"
  /\ pc' = [pc EXCEPT ![t] = IF questoes[t] = <<>> THEN "aviso" ELSE "poll"]
  /\ running' = Nenhuma
  /\ enviadas' = [enviadas EXCEPT ![t] = 0]
  /\ erros' = [erros EXCEPT ![t] = 0]
  /\ LocaisIniciais
  /\ UNCHANGED <<config, puro, cb_topico, cache, n_chamadas, n_respostas, questoes>>

(* send_message completed; the coroutine returns. *)
AvisoConcluido(t) ==
  /\ pc[t] = "aviso"
  /\ running = Nenhuma
  /\ pc' = [pc EXCEPT ![t] = "idle"]
  /\ UNCHANGED <<config, puro, cb_topico, cache, running, n_chamadas, n_respostas, locais, questoes, enviadas, erros>>

(* send_message raised: no try encloses it, in enviar_lote_para_canal or in *)
(* its callers, so the exception leaves the handler.                       *)
AvisoFalhou(t) ==
  /\ pc[t] = "aviso"
  /\ running = Nenhuma
  /\ pc' = [pc EXCEPT ![t] = "excecao"]
  /\ UNCHANGED <<config, puro, cb_topico, cache, running, n_chamadas, n_respostas, locais, questoes, enviadas, erros>>

(* erro_global: the application logs the exception of a handler. *)
erro_global(t) ==
  /\ pc[t] = "excecao"
  /\ running = Nenhuma
  /\ pc' = [pc EXCEPT ![t] = "idle"]
  /\ enviadas' = [enviadas EXCEPT ![t] = 0]
  /\ erros' = [erros EXCEPT ![t] = 0]
  /\ questoes' = [questoes EXCEPT ![t] = <<>>]
  /\ UNCHANGED <<config, puro, cb_topico, cache, running, n_chamadas, n_respostas, locais>>

(* Mutation: a send_poll that raised is tried again. *)
PollFalhou_Repete(t) ==
  /\ pc[t] = "poll"
  /\ running = Nenhuma
  /\ erros[t] < Len(questoes[t])
  /\ erros' = [erros EXCEPT ![t] = erros[t] + 1]
  /\ UNCHANGED <<config, puro, cb_topico, cache, pc, running, n_chamadas, n_respostas, locais, questoes, enviadas>>

(* After the send_poll of question enviadas[t] + 1 ended, with n_erros of    *)
(* the calls so far having raised: the for loop takes the next question, or *)
(* the loop is over, the coroutine logs "Envio de lote concluído" and       *)
(* returns.                                                                *)
ProximaQuestao(t, n_erros) ==
  IF enviadas[t] + 1 < Len(questoes[t])
    THEN /\ enviadas' = [enviadas EXCEPT ![t] = enviadas[t] + 1]
         /\ erros' = [erros EXCEPT ![t] = n_erros]
         /\ UNCHANGED <<pc, questoes>>
    ELSE /\ enviadas' = [enviadas EXCEPT ![t] = 0]
         /\ erros' = [erros EXCEPT ![t] = 0]
         /\ questoes' = [questoes EXCEPT ![t] = <<>>]
         /\ pc' = [pc EXCEPT ![t] = "idle"]

(* The send_poll of question enviadas[t] + 1 raised: the except clause logs *)
(* the error and the loop goes on.                                         *)
PollFalhou(t) ==
  /\ pc[t] = "poll"
  /\ running = Nenhuma
  /\ ProximaQuestao(t, erros[t] + 1)
  /\ UNCHANGED <<config, puro, cb_topico, cache, running, n_chamadas, n_respostas, locais>>

(* The send_poll of question enviadas[t] + 1 completed. *)
PollConcluido(t) ==
  /\ pc[t] = "poll"
  /\ running = Nenhuma
  /\ ProximaQuestao(t, erros[t])
  /\ UNCHANGED <<config, puro, cb_topico, cache, running, n_chamadas, n_respostas, locais>>

-----------------------------------------------------------------------------

(* The whole program.  The provider is explored answering MaxRespostas      *)
(* times in a run; its attempts may fail at any time.                      *)
Next ==
  \E t \in Tarefas :
    \/ \E data \in DadosCallback : t = "manual" /\ cb_router(data)
    \/ t = "manual" /\ QueryAnswerConcluido
    \/ t = "manual" /\ QueryAnswerFalhou
    \/ \E s \in 1..Len(HORARIOS_AUTOMATICOS), dia \in DiasDoMes :
         t = "automatico" /\ job_enviar_lote(s, dia)
    \/ \E top \in TopicosExplorados : EnvioSemQuantidade(t, top)
    \/ ChamadaDireta(t)
    \/ While(t)
    \/ \E i \in 1..Len(Payloads) :
         n_respostas < MaxRespostas /\ TentarOk(t, Payloads[i])
    \/ TentarFalha(t)
    \/ Acordar(t)
    \/ ApiRet(t)
    \/ For(t)
    \/ FimWhileRetorna(t)
    \/ FimWhileFallback(t)
    \/ \E i \in 1..Len(FALLBACK_QUESTOES) : Amostrar(t, i)
    \/ FallbackQ(t)
    \/ FallbackRetorna(t)
    \/ ConcluirDireta(t)
    \/ PrimeiroAwait(t)
    \/ AvisoConcluido(t)
    \/ AvisoFalhou(t)
    \/ erro_global(t)
    \/ PollConcluido(t)
    \/ PollFalhou(t)

Spec == Init /\ [][Next]_vars

(* buscar_lote on its own: direct calls of the public method, no trigger,   *)
(* and a provider explored answering MaxRespostasDireto times, enough for a *)
(* call to use up its qtd * 4 fetches.                                     *)
NextDireto ==
  \E t \in Tarefas :
    \/ ChamadaDireta(t)
    \/ While(t)
    \/ \E i \in 1..Len(Payloads) :
         n_respostas < MaxRespostasDireto /\ TentarOk(t, Payloads[i])
    \/ TentarFalha(t)
    \/ Acordar(t)
    \/ ApiRet(t)
    \/ For(t)
    \/ FimWhileRetorna(t)
    \/ FimWhileFallback(t)
    \/ \E i \in 1..Len(FALLBACK_QUESTOES) : Amostrar(t, i)
    \/ FallbackQ(t)
    \/ FallbackRetorna(t)
    \/ ConcluirDireta(t)

SpecDireto == Init /\ [][NextDireto]_vars

-----------------------------------------------------------------------------
(* _normalizar_resposta on its own: the raw items a provider may send, the  *)
(* shapes a payload may wrap them in, and a call per shape.                 *)

ItemCom(pergunta, opcoes, correta) ==
  JDict([pergunta |-> JStr(pergunta), opcoes |-> opcoes, correta |-> correta])

Itens ==
  { ItemCom(<<"Q", "0">>, OpXY, JInt(0)),
    ItemCom(<<"Q", "1">>, OpXY, JStr(<<"1">>)),
    ItemCom(<<"Q", "5">>, OpXY, JInt(5)),
    ItemCom(<<"Q", "n">>, OpXY, JInt(0 - 1)),
    ItemCom(<<"Q", "y">>, OpXY, JStr(<<"y">>)),
    ItemCom(<<"Q", "z">>, OpXY, JStr(<<"z">>)),
    ItemCom(<<"Q", "N">>, OpXY, JNull),
    ItemCom(<<"Q", "_">>, OpXY, JStr(<<" ", "+", "0", "_", "1", "\f">>)),
    ItemCom(<<"Q", "a">>, OpXY, JStr(<<"U+0663">>)),
    ItemCom(<<"Q", "t">>, OpXY, JBool(TRUE)),
    ItemCom(<<"Q", "f">>, OpXY, JFloat(FALSE, 19, 0 - 1)),
    ItemCom(<<"Q", "i">>, OpXY, JInf(FALSE)),
    JDict([opcoes |-> OpXY, correta |-> JInt(0)]),
    JDict([pergunta |-> JStr(<<"Q", "o">>), correta |-> JInt(0)]),
    JDict([pergunta |-> JStr(<<"Q", "c">>), opcoes |-> OpXY]),
    ItemCom(<<"Q", "u">>, JList(<<JStr(<<"x">>)>>), JInt(0)),
    ItemCom(<<"Q", "s">>, JStr(<<"x", "y">>), JInt(0)),
    JStr(<<"Q">>) }

RECURSIVE SeqAte(_, _)
SeqAte(S, n) ==
  IF n = 0 THEN {<<>>}
  ELSE LET menores == SeqAte(S, n - 1)
       IN  menores \cup {Append(l, x) : l \in menores, x \in S}

Formas == {"objeto", "result", "questoes", "lista", "outra"}

(* The payload that carries the items l in the given shape. *)
Payload(forma, l) ==
  CASE forma = "objeto" -> l[1]
    [] forma = "result" -> JDict([result |-> JList(l)])
    [] forma = "questoes" -> JDict([questoes |-> JList(l)])
    [] forma = "lista" -> JList(l)
    [] forma = "outra" -> JDict([data |-> JList(l)])

InitNormalizador ==
  /\ InitServico
  /\ nr_itens \in SeqAte(Itens, MaxItens)
  /\ nr_topico \in {Vazia, Penal}
  /\ nr_saida = <<>>

(* self._normalizar_resposta(dados, topico_padrao) *)
Normalizar(forma) ==
  /\ forma \notin DOMAIN nr_saida
  /\ forma = "objeto" => Len(nr_itens) = 1
  /\ nr_saida' =
       [f \in DOMAIN nr_saida \cup {forma} |->
          IF f = forma
            THEN normalizar_resposta(Payload(forma, nr_itens), nr_topico)
            ELSE nr_saida[f]]
  /\ UNCHANGED <<config, nr_itens, nr_topico, cb_topico, cache, pc, running,
                 n_chamadas, n_respostas, locais, questoes, enviadas, erros>>

NextNormalizador == \E forma \in Formas : Normalizar(forma)

SpecNormalizador == InitNormalizador /\ [][NextNormalizador]_vars

(* The program with a provider that is down: every attempt fails, so no    *)
(* batch is ever built from the provider.                                  *)
NextApiFora ==
  \E t \in Tarefas :
    \/ \E data \in DadosCallback : t = "manual" /\ cb_router(data)
    \/ t = "manual" /\ QueryAnswerConcluido
    \/ t = "manual" /\ QueryAnswerFalhou
    \/ \E s \in 1..Len(HORARIOS_AUTOMATICOS), dia \in DiasDoMes :
         t = "automatico" /\ job_enviar_lote(s, dia)
    \/ \E top \in TopicosExplorados : EnvioSemQuantidade(t, top)
    \/ ChamadaDireta(t)
    \/ While(t)
    \/ TentarFalha(t)
    \/ Acordar(t)
    \/ ApiRet(t)
    \/ FimWhileFallback(t)
    \/ \E i \in 1..Len(FALLBACK_QUESTOES) : Amostrar(t, i)
    \/ FallbackQ(t)
    \/ FallbackRetorna(t)
    \/ ConcluirDireta(t)
    \/ PrimeiroAwait(t)
    \/ AvisoConcluido(t)
    \/ AvisoFalhou(t)
    \/ erro_global(t)

(* Every enabled step is eventually taken (each provider attempt and each   *)
(* send finishes, the event loop runs what is ready), and random.choice is  *)
(* fair: a bank entry that can be drawn again and again is drawn.          *)
FairSpecApiFora ==
  /\ Init
  /\ [][NextApiFora]_vars
  /\ WF_vars(NextApiFora)
  /\ \A t \in Tarefas : \A i \in 1..Len(FALLBACK_QUESTOES) : SF_vars(Amostrar(t, i))

-----------------------------------------------------------------------------
(* Properties.                                                             *)

(* The last n entries of a sequence. *)
Ultimas(s, n) == SubSeq(s, Max2(Len(s) - n, 0) + 1, Len(s))

(* C1: the Recency Cache sequence never holds more than historico_limite   *)
(* entries once a registration has returned (registrations run inside the  *)
(* steps For and FallbackQ, so every state is one after their return).     *)
C1_HistoricoLimitado == Len(historico) <= historico_limite

(* C2: the list a buscar_lote call returns has at most qtd questions and no *)
(* two of them share a fingerprint, from the provider or from the bank.    *)
C2_LoteSemRepeticao ==
  \A t \in Tarefas :
    pc[t] = "retornou" =>
      /\ Len(questoes[t]) <= qtd
      /\ \A i, j \in 1..Len(questoes[t]) :
           i # j =>
             <<strip(questoes[t][i].pergunta), questoes[t][i].correta>>
               # <<strip(questoes[t][j].pergunta), questoes[t][j].correta>>

(* A provider batch of two questions was returned by a call that did not   *)
(* consult the history, after the provider sent "A" with and without        *)
(* whitespace after it.                                                    *)
C2_Witness ==
  \E t \in Tarefas :
    /\ pc[t] = "retornou"
    /\ fonte = "api"
    /\ ~evitar_repetidas
    /\ Len(questoes[t]) = 2
    /\ \E i \in 1..2 : strip(questoes[t][i].pergunta) = <<"A">>

(* C3: once the fallback is entered for a topic the bank has, the call      *)
(* returns exactly qtd questions.                                          *)
C3_FallbackCompleto ==
  \A t \in Tarefas :
    (pc[t] = "fallback" /\ Filtrar(FALLBACK_QUESTOES, topico) # <<>>)
      ~> (pc[t] = "retornou" /\ fonte = "fallback" /\ Len(questoes[t]) = qtd)

(* C4: every buscar_lote call that entered its loop eventually returns.    *)
C4_Termina ==
  \A t \in Tarefas : (pc[t] = "while") ~> (pc[t] = "retornou")

(* C5: when _chamar_api_bruto returns with api_url set: if every attempt   *)
(* failed there were exactly max_retries attempts and the result is None;  *)
(* otherwise only the last attempt succeeded and its response is the       *)
(* result; in both cases failed attempt k < max_retries was followed by a  *)
(* sleep of backoff_base * 2^(k-1), and the last attempt by none.          *)
C5_RetryBackoff ==
  \A t \in Tarefas :
    (pc[t] = "api_ret" /\ api_url # Vazia) =>
      LET n == Len(pedidos)
          falhou(i) == pedidos[i].k = "falha"
      IN  /\ n >= 1 \/ max_retries < 1
          /\ \A i \in 1..(n - 1) : falhou(i)
          /\ IF \A i \in 1..n : falhou(i)
               THEN n = max_retries /\ dados = JNull
               ELSE dados = pedidos[n]
          /\ Len(sleeps) = n - 1
          /\ \A k \in 1..(n - 1) : sleeps[k] = backoff_base * 2 ^ (k - 1)

(* All max_retries = 3 attempts failed, with two sleeps in between. *)
C5_Witness ==
  \E t \in Tarefas :
    /\ pc[t] = "api_ret"
    /\ Len(pedidos) = 3
    /\ \A i \in 1..3 : pedidos[i].k = "falha"
    /\ Len(sleeps) = 2

(* C6: _historico_set is exactly the set of fingerprints of _historico, and *)
(* _historico holds no fingerprint twice.                                  *)
C6_ConjuntoConsistente ==
  /\ historico_set = Chaves(historico)
  /\ \A i, j \in 1..Len(historico) :
       i # j => chave(historico[i]) # chave(historico[j])

(* C7: a step that registers a question (it appends it to lote) leaves the  *)
(* cache sequence unchanged when the fingerprint is already in it, and      *)
(* otherwise appends the question and drops only a prefix, the entries      *)
(* inserted earliest; no other step changes the sequence.                  *)
C7_Registro ==
  IF Len(lote') = Len(lote) + 1
    THEN LET q == lote'[Len(lote')]
             h1 == Append(historico, q)
         IN  IF chave(q) \in Chaves(historico)
               THEN historico' = historico
               ELSE \E n \in 0..Len(h1) :
                      historico' = SubSeq(h1, n + 1, Len(h1))
    ELSE historico' = historico

(* C7: every step of the program satisfies C7_Registro. *)
C7_FIFO == [][C7_Registro]_vars

(* C8, as claimed: with historico_limite >= qtd, every returned question's  *)
(* fingerprint is in the Recency Cache when buscar_lote returns.           *)
C8_RetornadasNoCache ==
  \A t \in Tarefas :
    (pc[t] = "retornou" /\ historico_limite >= qtd) =>
      \A i \in 1..Len(questoes[t]) : chave(questoes[t][i]) \in historico_set

(* C8, amended: the same for a batch that came from the provider through a  *)
(* call with evitar_repetidas set.                                         *)
C8_ProvedorNoCache ==
  \A t \in Tarefas :
    (pc[t] = "retornou" /\ historico_limite >= qtd
       /\ fonte = "api" /\ evitar_repetidas) =>
      \A i \in 1..Len(questoes[t]) : chave(questoes[t][i]) \in historico_set

(* A call returned two provider questions that fill the cache, and evicted *)
(* a question that an earlier call returned and its task is still sending. *)
C8_Witness ==
  \E t, u \in Tarefas :
    /\ pc[t] = "retornou"
    /\ fonte = "api"
    /\ evitar_repetidas
    /\ historico_limite = 2
    /\ Len(questoes[t]) = 2
    /\ Chaves(questoes[t]) = historico_set
    /\ pc[u] = "poll"
    /\ \E i \in 1..Len(questoes[u]) : chave(questoes[u][i]) \notin historico_set

(* C9: with evitar_repetidas set, a provider question is added to the batch *)
(* only while its fingerprint is outside the Recency Cache, hence outside   *)
(* the last historico_limite fingerprints registered.                      *)
C9_Adicao ==
  \A t \in Tarefas :
    (pc[t] = "for" /\ evitar_repetidas /\ Len(lote') = Len(lote) + 1) =>
      LET q == lote'[Len(lote')]
      IN  /\ chave(q) \notin historico_set
          /\ chave(q) \notin Chaves(Ultimas(historico, historico_limite))

(* C9: every step of the program satisfies C9_Adicao. *)
C9_SemRepeticaoRecente == [][C9_Adicao]_vars

(* In a second call the provider sends a question whose fingerprint is in   *)
(* the cache and not yet in the batch.                                     *)
C9_Witness ==
  \E t \in Tarefas :
    /\ pc[t] = "for"
    /\ evitar_repetidas
    /\ n_chamadas = 2
    /\ chave(Head(questoes_api)) \in historico_set \ vistos_local

(* C10: while a task is inside a backoff sleep, another trigger whose task  *)
(* is idle can start.                                                      *)
C10_SleepNaoBloqueia ==
  \A t \in Tarefas :
    pc[t] = "dormir" =>
      /\ (t # "manual" /\ pc["manual"] = "idle" /\ n_chamadas < MaxChamadas) =>
           ENABLED cb_router(DadoDoBotao(Penal))
      /\ (t # "automatico" /\ pc["automatico"] = "idle"
            /\ n_chamadas + Pendentes("automatico") < MaxChamadas) =>
           ENABLED job_enviar_lote(1, 1)

(* The bucket of a day of the month: day mod 3, a remainder of 0 being     *)
(* bucket 3.                                                               *)
dayBucket(dia) == IF dia % 3 = 0 THEN 3 ELSE dia % 3

(* Rotation tables a deployment may configure, bucket -> topics of the three *)
(* slots: one that repeats the same list every day and one that rotates it. *)
TabelasRotacao ==
  { [b \in 1..3 |-> <<Penal, Constitucional, RaciocinioLogico>>],
    [b \in 1..3 |->
       [s \in 1..3 |->
          <<Penal, Constitucional, RaciocinioLogico>>[((s + b - 2) % 3) + 1]]] }

(* C11: whatever rotation table is configured, the job of slot s fired on   *)
(* day dia requests the topic at position s of the list of bucket           *)
(* dayBucket(dia); days 1, 2, 3, 4 are buckets 1, 2, 3, 1 and days 3, 6, 9   *)
(* are bucket 3.                                                           *)
C11_Passo ==
  /\ <<dayBucket(1), dayBucket(2), dayBucket(3), dayBucket(4)>> = <<1, 2, 3, 1>>
  /\ <<dayBucket(3), dayBucket(6), dayBucket(9)>> = <<3, 3, 3>>
  /\ \A s \in 1..Len(HORARIOS_AUTOMATICOS), dia \in DiasDoMes :
       job_enviar_lote(s, dia) =>
         \A T \in TabelasRotacao : topico' = T[dayBucket(dia)][s]

(* C11: every step of the program satisfies C11_Passo. *)
C11_Rotacao == [][C11_Passo]_vars

(* The positions inside buscar_lote. *)
EmBuscarLote ==
  {"while", "tentar", "dormir", "api_ret", "for", "fim_while", "fallback",
   "fallback_q"}

(* C12: no step takes a task out of buscar_lote except its return of a      *)
(* list, whatever the provider did (failed attempts, malformed or empty      *)
(* payloads); an exception leaves a handler only from an awaited Telegram     *)
(* call (send_message, or the query.answer of cb_router);                    *)
(* enviar_lote_para_canal goes to send_message exactly when the returned     *)
(* list is empty and to send_poll exactly when it is not, and after          *)
(* send_message it sends no poll.                                           *)
C12_Passo ==
  \A t \in Tarefas :
    /\ pc[t] \in EmBuscarLote => pc'[t] \in EmBuscarLote \cup {"retornou"}
    /\ (pc'[t] = "retornou" /\ pc[t] # "retornou") =>
         DOMAIN questoes'[t] = 1..Len(questoes'[t])
    /\ (pc'[t] = "excecao" /\ pc[t] # "excecao") =>
         pc[t] = "aviso" \/ (t = "manual" /\ pc[t] \in {"idle", "answer"})
    /\ (pc[t] = "retornou" /\ pc'[t] # "retornou" /\ t # "direto") =>
         /\ pc'[t] = "aviso" <=> questoes[t] = <<>>
         /\ pc'[t] = "poll" <=> questoes[t] # <<>>
    /\ (pc'[t] = "aviso" /\ pc[t] # "aviso") =>
         pc[t] = "retornou" /\ questoes[t] = <<>>
    /\ (pc'[t] = "poll" /\ pc[t] # "poll") =>
         pc[t] = "retornou" /\ questoes[t] # <<>>
    /\ pc[t] = "aviso" =>
         pc'[t] \in {"aviso", "idle", "excecao"} /\ enviadas'[t] = 0

(* C12: every step of the program satisfies C12_Passo. *)
C12_NaoLevanta == [][C12_Passo]_vars

(* One task is sending the notification for an empty batch while another    *)
(* call, whose provider gave nothing usable, returned a list from the bank. *)
C12_Witness ==
  \E t, u \in Tarefas :
    /\ pc[t] = "aviso"
    /\ questoes[t] = <<>>
    /\ pc[u] = "retornou"
    /\ api_url # Vazia
    /\ fonte = "fallback"
    /\ questoes[u] # <<>>

(* An item C13 wants kept: an object with the three required keys, a list  *)
(* of at least two options, and a correct answer that can be resolved: an   *)
(* integer, or a literal equal to one of the options.                      *)
C13_Mantido(q) ==
  /\ q.k = "dict"
  /\ {"pergunta", "opcoes", "correta"} \subseteq DOMAIN q.v
  /\ q.v.opcoes.k = "list"
  /\ Len(q.v.opcoes.v) >= 2
  /\ \/ ParaIntOk(q.v.correta)
     \/ \E i \in 1..Len(q.v.opcoes.v) : q.v.opcoes.v[i] = q.v.correta

(* The result is the kept items, in order, one question each. *)
C13_EmOrdem(saida, itens) ==
  LET mantidos == SelectSeq(itens, C13_Mantido)
  IN  /\ Len(saida) = Len(mantidos)
      /\ \A k \in 1..Len(mantidos) :
           /\ saida[k].pergunta = mantidos[k].v.pergunta.v
           /\ Len(saida[k].opcoes) = Len(mantidos[k].v.opcoes.v)

(* C13: the same items yield the same questions whether they come as a bare *)
(* object, in a top-level list or in a wrapper object that holds the list    *)
(* under a key, and the questions are those of the valid items, in order:    *)
(* an item that lacks a required key or whose opcoes is not a list of at     *)
(* least two is dropped, its valid siblings are kept.                       *)
C13_QualquerChave ==
  /\ \A f \in DOMAIN nr_saida : C13_EmOrdem(nr_saida[f], nr_itens)
  /\ \A f, g \in DOMAIN nr_saida : nr_saida[f] = nr_saida[g]

(* C14: every question _normalizar_resposta emits has at least two options  *)
(* and a correta that indexes one of them: 0 <= correta < len(opcoes).      *)
C14_IndiceValido ==
  \A f \in DOMAIN nr_saida : \A k \in 1..Len(nr_saida[f]) :
    /\ Len(nr_saida[f][k].opcoes) >= 2
    /\ 0 <= nr_saida[f][k].correta
    /\ nr_saida[f][k].correta < Len(nr_saida[f][k].opcoes)

(* C15: an item whose correta is a literal equal to one of its option       *)
(* strings is emitted with that option's index (0-based), an item whose     *)
(* correta is a parseable integer with that integer, and an item is dropped  *)
(* for its correta only when it is neither.                                 *)
C15_IndiceOuLiteral ==
  \A f \in DOMAIN nr_saida \ {"outra"} :
    Len(nr_itens) = 1 /\ nr_itens[1].k = "dict"
      /\ {"pergunta", "opcoes", "correta"} \subseteq DOMAIN nr_itens[1].v
      /\ nr_itens[1].v.opcoes.k = "list" /\ Len(nr_itens[1].v.opcoes.v) >= 2
    =>
      LET c == nr_itens[1].v.correta
          ops == nr_itens[1].v.opcoes.v
          literal == {i \in 1..Len(ops) : ops[i] = c}
      IN  IF ParaIntOk(c)
            THEN Len(nr_saida[f]) = 1 /\ nr_saida[f][1].correta = ParaInt(c)
          ELSE IF literal # {}
            THEN /\ Len(nr_saida[f]) = 1
                 /\ nr_saida[f][1].correta + 1 \in literal
          ELSE nr_saida[f] = <<>>

(* C16: after a fetch the loop is left at once (the break) only when         *)
(* _chamar_api_bruto returned None; after a successful response, usable or   *)
(* not, the loop goes on with the iteration counted.                        *)
C16_Passo ==
  \A t \in Tarefas :
    pc[t] = "api_ret" /\ pc'[t] # "api_ret" =>
      IF dados = JNull
        THEN pc'[t] = "fim_while"
        ELSE pc'[t] \in {"while", "for"} /\ tentativas' = tentativas

(* C16: every step of the program satisfies C16_Passo. *)
C16_ParaSoSemProvedor == [][C16_Passo]_vars

(* C17: a buscar_lote call never counts more than qtd * 4 provider calls;   *)
(* while one is under way it is call number tentativas <= qtd * 4 of this    *)
(* buscar_lote, it asks for one item, fewer than qtd questions have been     *)
(* collected, and at most max_retries attempts were made in it (so at most   *)
(* qtd * 4 * max_retries in all).                                           *)
C17_ChamadasLimitadas ==
  \A t \in Tarefas :
    /\ pc[t] \in {"while", "for"} => tentativas <= qtd * 4
    /\ pc[t] \in {"tentar", "dormir", "api_ret"} =>
         /\ 1 <= tentativas /\ tentativas <= qtd * 4
         /\ params.qtd = 1
         /\ Len(lote) < qtd
         /\ Len(pedidos) <= max_retries
         /\ (tentativas - 1) * max_retries + Len(pedidos) <= qtd * 4 * max_retries

(* The budget is used up: qtd * 4 provider calls were made, every one       *)
(* answered, fewer than qtd questions were collected, and the loop          *)
(* condition is about to be tested.                                         *)
C17_Witness ==
  \E t \in Tarefas :
    /\ pc[t] = "while"
    /\ qtd >= 1
    /\ tentativas = qtd * 4
    /\ n_respostas >= qtd * 4
    /\ Len(lote) < qtd

(* The questions of the fallback bank. *)
DoBanco(top) ==
  {QuestaoDoBanco(BaseFallback(top)[i]) : i \in 1..Len(BaseFallback(top))}

(* C18: the fallback is entered exactly when the loop collected nothing; a   *)
(* non-empty provider batch, short or not, is returned as it is (shuffled);  *)
(* the fallback samples the bank entries of the topic, or the whole bank     *)
(* when none has it, and a fallback batch holds bank questions only.        *)
C18_Passo ==
  \A t \in Tarefas :
    /\ pc[t] = "fim_while" /\ pc'[t] # "fim_while" =>
         IF lote = <<>>
           THEN /\ pc'[t] = "fallback"
                /\ base' = IF \E i \in 1..Len(FALLBACK_QUESTOES) :
                                  FALLBACK_QUESTOES[i].topico = topico
                              THEN SelectSeq(FALLBACK_QUESTOES,
                                             LAMBDA r : r.topico = topico)
                              ELSE FALLBACK_QUESTOES
           ELSE /\ pc'[t] = "retornou"
                /\ fonte' = "api"
                /\ Len(questoes'[t]) = Len(lote)
                /\ \A i \in 1..Len(lote) :
                     \E j \in 1..Len(lote) : questoes'[t][j] = lote[i]
    /\ (pc'[t] = "fallback" /\ pc[t] \notin {"fallback", "fallback_q"}) =>
         pc[t] = "fim_while" /\ lote = <<>>
    /\ (pc[t] = "fallback" /\ pc'[t] = "retornou") =>
         /\ fonte' = "fallback"
         /\ \A i \in 1..Len(questoes'[t]) : questoes'[t][i] \in DoBanco(topico)

(* C18: every step of the program satisfies C18_Passo. *)
C18_FallbackSoVazio == [][C18_Passo]_vars

(* A provider batch shorter than qtd was returned. *)
C18_Witness ==
  \E t \in Tarefas :
    /\ pc[t] = "retornou"
    /\ fonte = "api"
    /\ qtd = 2
    /\ Len(questoes[t]) = 1

(* C19: each step of the send_poll loop, whether the call completed or       *)
(* raised, is the one attempt for question enviadas + 1 and moves on to the  *)
(* next question of the batch, or, after the last one, ends the coroutine    *)
(* normally; no exception leaves the loop.                                  *)
C19_Passo ==
  \A t \in Tarefas :
    (pc[t] = "poll"
       /\ <<pc'[t], enviadas'[t], erros'[t]>> # <<pc[t], enviadas[t], erros[t]>>) =>
      /\ enviadas[t] < Len(questoes[t])
      /\ erros'[t] = 0 \/ erros'[t] \in {erros[t], erros[t] + 1}
      /\ IF enviadas[t] + 1 < Len(questoes[t])
           THEN /\ pc'[t] = "poll"
                /\ enviadas'[t] = enviadas[t] + 1
                /\ erros'[t] <= enviadas'[t]
                /\ questoes'[t] = questoes[t]
           ELSE pc'[t] = "idle"

(* C19: every step of the program satisfies C19_Passo. *)
C19_UmaTentativaPorQuestao == [][C19_Passo]_vars

(* The first send_poll of a batch of two raised and the second question is   *)
(* being sent.                                                             *)
C19_Witness ==
  \E t \in Tarefas :
    /\ pc[t] = "poll"
    /\ Len(questoes[t]) = 2
    /\ enviadas[t] = 1
    /\ erros[t] = 1

(* C20: with an empty api_url no provider attempt and no sleep is made: the  *)
(* first iteration gets None and ends the loop, and the batch of a call with *)
(* qtd >= 1 comes from the fallback bank; a call with qtd <= 0 returns the    *)
(* empty list at once, with no attempt and the Recency Cache unchanged.      *)
C20_Passo ==
  \A t \in Tarefas :
    /\ api_url = Vazia =>
         /\ pedidos' = <<>> /\ sleeps' = <<>>
         /\ pc'[t] \notin {"tentar", "dormir", "for"}
         /\ tentativas' <= 1
         /\ pc'[t] = "api_ret" => dados' = JNull
         /\ pc[t] = "api_ret" => pc'[t] \in {"api_ret", "fim_while"}
         /\ (pc'[t] = "retornou" /\ qtd' >= 1) =>
              /\ fonte' = "fallback"
              /\ questoes'[t] # <<>>
              /\ \A i \in 1..Len(questoes'[t]) :
                   \E j \in 1..Len(FALLBACK_QUESTOES) :
                     questoes'[t][i].pergunta = FALLBACK_QUESTOES[j].pergunta
    /\ (pc[t] \in {"idle", "answer"} /\ running' = t /\ qtd' <= 0) =>
         /\ pc'[t] = "retornou"
         /\ questoes'[t] = <<>>
         /\ pedidos' = <<>> /\ sleeps' = <<>>
         /\ <<historico', historico_set'>> = <<historico, historico_set>>

(* C20: every step of the program satisfies C20_Passo. *)
C20_SemUrlSoFallback == [][C20_Passo]_vars

(* With no api_url a call returned a question of the bank, and before it a   *)
(* call with qtd = 0 returned the empty list.                              *)
C20_Witness ==
  \E t, u \in Tarefas :
    /\ api_url = Vazia
    /\ pc[t] = "retornou" /\ qtd >= 1 /\ questoes[t] # <<>>
    /\ pc[u] = "aviso"

=============================================================================
